---- MODULE Spec2Model ----
(***************************************************************************)
(* Oracle-23ai-RAG-Chatbot/oracle_vectorstore.py: the OracleVectorStore    *)
(* adapter (add / delete / query / persist), the module-level oracle_query *)
(* and save_chunks_with_embeddings_in_db, and the two tables CHUNKS and    *)
(* BOOKS they read and write.                                              *)
(*                                                                         *)
(* Numbers: a cosine distance and a similarity are kept in fixed point,    *)
(* in units of 1/Unit.  Every value the model uses is a multiple of 1/2,   *)
(* so the float expression `1 - row[3]` of the source is exact on them.    *)
(***************************************************************************)
EXTENDS Integers, Sequences, FiniteSets, TLC

\* ----------------------------------------------------------------- bounds
NumIds == 2       \* node ids are 1..NumIds
MaxPre == 2       \* chunk ids 1..MaxPre may be loaded in CHUNKS before the run
MaxTopK == 3      \* st.session_state['top_k'] ranges over 1..MaxTopK

\* The float literal 1 of `1 - row[3]`, in fixed point (halves).
Unit == 2

VARIABLES
  node_dict,            \* self.node_dict: insertion-ordered, as a sequence of nodes with distinct id_
  enable_hnsw_indexes,  \* self.enable_hnsw_indexes
  unique_ID,            \* whether table CHUNKS, created outside this source, has a unique key on ID
  adding,               \* an add call of another thread that is inside its loop: the nodes left and its ids_list
  has_DSN,              \* whether the attribute self.DSN read by persist exists on the instance
  chunks,               \* the rows table CHUNKS holds, committed: which rows, not how many times each (without a key on ID a row may be held more than once)
  txn,                  \* the rows inserted on persist's open connection and not yet committed: which rows, as for chunks
  open_conns,           \* connections currently open
  open_cursors,         \* cursors currently open
  pc,                   \* position of the running persist or query call, "idle" between calls
  pages,                \* persist's local lists pages_id, pages_text, pages_num, embeddings, and the loop index
  call,                 \* what the current (or last) call did and returned
  last_add,             \* history: id -> the node most recently passed to add since the buffer was last cleared
  clean                 \* history: the last persist completed with no row failure and no add followed it

vars == <<node_dict, enable_hnsw_indexes, unique_ID, adding, has_DSN, chunks, txn, open_conns, open_cursors, pc, pages, call, last_add, clean>>

\* ------------------------------------------------------------ data domains
None == "None"
NodeIds == 1..NumIds
Texts == {"t1", "t2"}
Vecs == {<<1, 0>>, <<0, 1>>, <<-1, 0>>}     \* unit vectors
NoVec == <<0, 0>>                            \* placeholder where embedding is None
Floors == 0..Unit                            \* st.session_state['similarity']: 0, 0.5, 1
BOOKS == {[id |-> "B1", name |-> "book1"]}

\* A node handed to add: id_, text, embedding (None when has_embedding is
\* FALSE), metadata["page#"] (absent when has_page is FALSE).  Every id has a
\* well-formed node; id 1 also has one with another text, id 2 one without
\* embedding and one without page number.
Node(i, t, e, p) ==
  [id_ |-> i, text |-> t, has_embedding |-> e, embedding |-> IF e THEN <<1, 0>> ELSE NoVec,
   has_page |-> p, page |-> IF p THEN 1 ELSE 0]
Nodes ==
  {Node(i, "t1", TRUE, TRUE) : i \in NodeIds}
    \cup {Node(1, "t2", TRUE, TRUE), Node(2, "t1", FALSE, TRUE), Node(2, "t1", TRUE, FALSE)}

Range(s) == {s[i] : i \in 1..Len(s)}
Min(a, b) == IF a <= b THEN a ELSE b
\* The sequences of n distinct elements of S.
SeqsOf(S, n) == {s \in [1..n -> S] : \A i, j \in 1..n : i # j => s[i] # s[j]}
\* add is called with one node, or with node 1 and then a second node (the
\* same id may come twice).
NodeLists == {<<n>> : n \in Nodes} \cup {<<Node(1, "t1", TRUE, TRUE), n>> : n \in Nodes}

\* ---------------------------------------------------------------- the store
\* A CHUNKS row loaded by the external pipeline.
PreRow(i, v, b) == [id |-> i, chunk |-> "p", vec |-> v, page_num |-> i, book_id |-> b]
PreChoices(i) == {{}} \cup {{PreRow(i, v, "B1")} : v \in Vecs} \cup {{PreRow(i, <<1, 0>>, None)}}
RECURSIVE PreStores(_)
PreStores(n) ==
  IF n = 0 THEN {{}}
  ELSE {s \cup c : s \in PreStores(n - 1), c \in PreChoices(n)}

\* VECTOR_DISTANCE(C.VEC, :1, COSINE) on unit vectors: 1 - u.v
Dot(u, v) == u[1] * v[1] + u[2] * v[2]
VECTOR_DISTANCE(u, v) == Unit - Unit * Dot(u, v)

\* SELECT C.ID, C.CHUNK, C.PAGE_NUM, VECTOR_DISTANCE(...) as d, B.NAME
\* FROM CHUNKS C, BOOKS B WHERE C.BOOK_ID = B.ID   (a NULL book_id joins nothing)
\* the FROM clause without its WHERE: every chunk with every book
JoinAll(c, b) == TRUE
\* WHERE C.BOOK_ID = B.ID
JoinOn(c, b) == c.book_id # None /\ c.book_id = b.id
Select(table, embed_query) ==
  {[id |-> c.id, chunk |-> c.chunk, page_num |-> c.page_num,
    d |-> VECTOR_DISTANCE(c.vec, embed_query), name |-> b.name] :
     <<c, b>> \in {p \in table \X BOOKS : JoinOn(p[1], p[2])}}

\* ORDER BY 4 (ascending)
OrderDesc(s) == \A i \in 1..(Len(s) - 1) : s[i].d >= s[i + 1].d
OrderBy4(s) == \A i \in 1..(Len(s) - 1) : s[i].d <= s[i + 1].d

\* FETCH FIRST top_k ROWS ONLY: how many rows come back
FetchLimitOffByOne(top_k, n) == Min(top_k + 1, n)
FetchLimit(top_k, n) == Min(top_k, n)

\* The row sequences the statement may return.  Exact search returns the
\* closest rows (ties in any order); with the APPROXIMATE clause the rows are
\* ranked but need not be the closest ones.
FetchFirst(joined, approximate, top_k) ==
  LET n == FetchLimit(top_k, Cardinality(joined))
      ranked == {s \in SeqsOf(joined, n) : OrderBy4(s)}
  IN IF approximate THEN ranked
     ELSE {s \in ranked : \A r \in joined \ Range(s) : \A i \in 1..n : s[i].d <= r.d}

\* ------------------------------------------------------------ oracle_query
\* line 148 with the comparison turned round
KeepsBelow(row, similarity) == Unit - row.d <= similarity
KeepsStrict(row, similarity) == Unit - row.d > similarity
\* line 148: 1 - (row[3]) >= st.session_state['similarity']
Keeps(row, similarity) == Unit - row.d >= similarity

\* lines 152-156
TextNode(row) ==
  [id_ |-> row.id, text |-> row.chunk, file_name |-> row.name, page |-> row.page_num,
   score |-> Unit - row.d]

EmptyResult == [nodes |-> <<>>, ids |-> <<>>, similarities |-> <<>>]

\* lines 145-162: the loop over the fetched rows
RECURSIVE FilterRows(_, _, _)
FilterRows(rows, similarity, acc) ==
  IF rows = <<>> THEN acc
  ELSE LET row == Head(rows)
       IN IF Keeps(row, similarity)
          THEN FilterRows(Tail(rows), similarity,
                 [nodes |-> Append(acc.nodes, TextNode(row)),
                  ids |-> Append(acc.ids, row.id),
                  similarities |-> Append(acc.similarities, row.d)])
          ELSE FilterRows(Tail(rows), similarity, acc)

NoCall ==
  [op |-> "none", outcome |-> "none",
   pre_dict |-> <<>>, pre_chunks |-> {}, after_clean |-> FALSE,
   attempts |-> <<>>, tot_errors |-> 0, commits |-> 0, conns |-> 0, refused |-> FALSE,
   arg_ids |-> <<>>, ids_list |-> <<>>, fault |-> "none", reads |-> 0, row_i |-> 0,
   removed |-> <<>>, interleaved |-> FALSE,
   embed_query |-> NoVec, top_k |-> 0, similarity |-> 0,
   rows |-> <<>>, q_result |-> EmptyResult]

\* lines 164-168 letting the error pass and going on to line 171
ExceptSwallow(partial) == [outcome |-> "ok", q_result |-> partial]
\* lines 164-168 answering an error with an empty result object
ExceptEmpty(partial) == [outcome |-> "ok", q_result |-> EmptyResult]
\* lines 164-168: except Exception: log, return None.  What the loop had
\* collected so far is dropped.
Except(partial) == [outcome |-> "None", q_result |-> EmptyResult]

\* lines 170-182: the result object built from the three lists
Returns(result) == [outcome |-> "ok", q_result |-> result]

\* An exception inside the with block of line 107: the call is on its way
\* out, with the cursor and the connection still open.  call.fault holds
\* what failed, call.reads how many rows the loop had appended.
QueryFails(fault) ==
  /\ call' = [call EXCEPT !.fault = fault, !.reads = Len(call.q_result.ids)]
  /\ pc' = "q_leave"
  /\ UNCHANGED <<open_conns, open_cursors>>

\* OracleVectorStore.query (lines 266-287) entering oracle_query: top_k and
\* the floor come from st.session_state, approximate is enable_hnsw_indexes.
\* Line 102: the connection.  A refused connection goes straight to the
\* handler of lines 164-168: there is nothing to close.
Query(embed_query, top_k, similarity) ==
  /\ pc = "idle"
  /\ LET started == [NoCall EXCEPT !.op = "query", !.outcome = "running",
                                   !.pre_dict = node_dict, !.pre_chunks = chunks,
                                   !.embed_query = embed_query, !.top_k = top_k,
                                   !.similarity = similarity]
         ret == Except(EmptyResult)
     IN \E connected \in BOOLEAN :
          IF connected
          THEN /\ call' = [started EXCEPT !.conns = 1]
               /\ pc' = "q_cursor"
               /\ open_conns' = open_conns + 1
          ELSE /\ call' = [started EXCEPT !.outcome = ret.outcome, !.q_result = ret.q_result,
                                          !.refused = TRUE, !.fault = "connect"]
               /\ UNCHANGED <<pc, open_conns>>
  /\ UNCHANGED <<node_dict, enable_hnsw_indexes, unique_ID, adding, has_DSN, chunks, txn, open_cursors, pages, last_add, clean>>

\* line 107: connection.cursor().  When it raises no cursor was opened and
\* the with block of line 102 is left next.
QueryCursor ==
  /\ pc = "q_cursor"
  /\ \E opened \in BOOLEAN :
       IF opened
       THEN /\ pc' = "q_execute"
            /\ open_cursors' = open_cursors + 1
            /\ UNCHANGED call
       ELSE /\ pc' = "q_close"
            /\ call' = [call EXCEPT !.fault = "cursor"]
            /\ UNCHANGED open_cursors
  /\ UNCHANGED <<node_dict, enable_hnsw_indexes, unique_ID, adding, has_DSN, chunks, txn, open_conns, pages, last_add, clean>>

\* line 135: cursor.execute(select, [embed_query])
QueryExecute ==
  /\ pc = "q_execute"
  /\ \E executed \in BOOLEAN :
       IF executed
       THEN pc' = "q_fetch" /\ UNCHANGED <<call, open_conns, open_cursors>>
       ELSE QueryFails("execute")
  /\ UNCHANGED <<node_dict, enable_hnsw_indexes, unique_ID, adding, has_DSN, chunks, txn, pages, last_add, clean>>

\* line 139: rows = cursor.fetchall()
QueryFetch ==
  /\ pc = "q_fetch"
  /\ \E fetched \in BOOLEAN :
       IF fetched
       THEN /\ \E rows \in FetchFirst(Select(chunks, call.embed_query), enable_hnsw_indexes, call.top_k) :
                 call' = [call EXCEPT !.rows = rows, !.row_i = 1]
            /\ pc' = "q_rows"
            /\ UNCHANGED <<open_conns, open_cursors>>
       ELSE QueryFails("fetch")
  /\ UNCHANGED <<node_dict, enable_hnsw_indexes, unique_ID, adding, has_DSN, chunks, txn, pages, last_add, clean>>

\* lines 145-162: one turn of the loop.  A row under the floor is passed
\* over; for a row that meets it the CLOB is read (line 150), which may fail.
QueryRow ==
  /\ pc = "q_rows"
  /\ call.row_i <= Len(call.rows)
  /\ LET row == call.rows[call.row_i]
         next == [call EXCEPT !.row_i = @ + 1,
                              !.q_result = FilterRows(<<row>>, call.similarity, @)]
     IN IF Keeps(row, call.similarity)
        THEN \E read \in BOOLEAN :
               IF read
               THEN call' = next /\ UNCHANGED <<pc, open_conns, open_cursors>>
               ELSE QueryFails("read")
        ELSE call' = next /\ UNCHANGED <<pc, open_conns, open_cursors>>
  /\ UNCHANGED <<node_dict, enable_hnsw_indexes, unique_ID, adding, has_DSN, chunks, txn, pages, last_add, clean>>

\* The with block of line 107 is left, the loop being over or an exception
\* on its way out: the cursor is closed.  The connection is still open.
QueryCursorExit ==
  /\ \/ pc = "q_rows" /\ call.row_i > Len(call.rows)
     \/ pc = "q_leave"
  /\ pc' = "q_close"
  /\ open_cursors' = open_cursors - 1
  /\ UNCHANGED <<node_dict, enable_hnsw_indexes, unique_ID, adding, has_DSN, chunks, txn, open_conns, pages, call, last_add, clean>>

\* The with block of line 102 is left: the connection is closed.  Then the
\* call returns: None from the handler of lines 164-168 when an exception
\* was on its way out, else the result object of lines 170-182.
QueryReturn ==
  /\ pc = "q_close"
  /\ LET ret == IF call.fault = "none" THEN Returns(call.q_result) ELSE Except(call.q_result)
     IN call' = [call EXCEPT !.outcome = ret.outcome, !.q_result = ret.q_result, !.row_i = 0]
  /\ pc' = "idle"
  /\ open_conns' = open_conns - 1
  /\ UNCHANGED <<node_dict, enable_hnsw_indexes, unique_ID, adding, has_DSN, chunks, txn, open_cursors, pages, last_add, clean>>

\* The query embedding is fixed; the stored vectors range over every angle to it.
QueryNext ==
  \E top_k \in 1..MaxTopK, similarity \in Floors :
    Query(<<1, 0>>, top_k, similarity)

NextQuery ==
  \/ QueryNext
  \/ QueryCursor
  \/ QueryExecute
  \/ QueryFetch
  \/ QueryRow
  \/ QueryCursorExit
  \/ QueryReturn

\* ------------------------------------------------------------ construction
NoPages == [pages_id |-> <<>>, pages_text |-> <<>>, pages_num |-> <<>>, embeddings |-> <<>>, i |-> 0, tot_errors |-> 0, size |-> 0]

\* No add is inside its loop.
NoAdding == [active |-> FALSE, left |-> <<>>, ids_list |-> <<>>]

\* __init__ (lines 236-238); nothing is open and no call was made.
Constructed ==
  /\ node_dict = <<>>
  /\ enable_hnsw_indexes \in BOOLEAN
  /\ unique_ID \in BOOLEAN
  /\ adding = NoAdding
  /\ has_DSN = FALSE
  /\ txn = {}
  /\ open_conns = 0
  /\ open_cursors = 0
  /\ pc = "idle"
  /\ pages = NoPages
  /\ call = NoCall
  /\ last_add = <<>>
  /\ clean = FALSE

\* The query path alone, over every preloaded store.
InitQuery == Constructed /\ chunks \in PreStores(MaxPre)
SpecQuery == InitQuery /\ [][NextQuery]_vars

\* ------------------------------------------------------ OracleVectorStore.add
DictKeepFirst(d, node) ==
  IF \E k \in 1..Len(d) : d[k].id_ = node.id_ THEN d ELSE Append(d, node)
\* line 252: self.node_dict[node.id_] = node.  An existing key keeps its
\* position and takes the new value; a new key goes last.
DictSet(d, node) ==
  IF \E k \in 1..Len(d) : d[k].id_ = node.id_
  THEN [k \in 1..Len(d) |-> IF d[k].id_ = node.id_ THEN node ELSE d[k]]
  ELSE Append(d, node)

\* lines 250-255: the loop of add, on the dict
RECURSIVE AddAll(_, _)
AddAll(d, nodes) ==
  IF nodes = <<>> THEN d ELSE AddAll(DictSet(d, Head(nodes)), Tail(nodes))

\* an add that returns the ids of everything staged once the call is through
IdsListStaged(nodes, ids_list) ==
  LET d == AddAll(node_dict, nodes) IN ids_list \o [k \in 1..Len(d) |-> d[k].id_]
\* lines 250-255: the list add returns, appended to in the same loop
RECURSIVE IdsList(_, _)
IdsList(nodes, ids_list) ==
  IF nodes = <<>> THEN ids_list ELSE IdsList(Tail(nodes), Append(ids_list, Head(nodes).id_))

\* History only: the last node passed to add for each id.
RECURSIVE Latest(_, _)
Latest(f, nodes) ==
  IF nodes = <<>> THEN f
  ELSE Latest((Head(nodes).id_ :> Head(nodes)) @@ f, Tail(nodes))

\* an add that also writes each well-formed node through to CHUNKS
AddWriteThrough(nodes) ==
  /\ pc = "idle"
  /\ node_dict' = AddAll(node_dict, nodes)
  /\ last_add' = Latest(last_add, nodes)
  /\ clean' = FALSE
  /\ chunks' = chunks \cup
       {[id |-> n.id_, chunk |-> n.text, vec |-> n.embedding, page_num |-> n.page, book_id |-> None] :
          n \in {m \in Range(nodes) : m.has_embedding /\ m.has_page /\ \A r \in chunks : r.id # m.id_}}
  /\ call' = [NoCall EXCEPT !.op = "add", !.outcome = "ok",
                            !.pre_chunks = chunks,
                            !.arg_ids = [k \in 1..Len(nodes) |-> nodes[k].id_],
                            !.ids_list = IdsList(nodes, <<>>)]
  /\ UNCHANGED <<enable_hnsw_indexes, unique_ID, adding, has_DSN, txn, open_conns, open_cursors, pc, pages>>
\* lines 240-255
Add(nodes) ==
  /\ pc = "idle"
  /\ node_dict' = AddAll(node_dict, nodes)
  /\ last_add' = Latest(last_add, nodes)
  /\ clean' = FALSE
  /\ call' = [NoCall EXCEPT !.op = "add", !.outcome = "ok",
                            !.pre_chunks = chunks,
                            !.arg_ids = [k \in 1..Len(nodes) |-> nodes[k].id_],
                            !.ids_list = IdsList(nodes, <<>>)]
  /\ UNCHANGED <<enable_hnsw_indexes, unique_ID, adding, has_DSN, chunks, txn, open_conns, open_cursors, pc, pages>>

\* --------------------------------------------------- OracleVectorStore.delete
\* a delete that drops the staged node and returns
DeleteRemoves(node_id) ==
  /\ pc = "idle"
  /\ node_dict' = SelectSeq(node_dict, LAMBDA n : n.id_ # node_id)
  /\ call' = [NoCall EXCEPT !.op = "delete", !.outcome = "ok",
                            !.pre_dict = node_dict, !.pre_chunks = chunks,
                            !.arg_ids = <<node_id>>]
  /\ UNCHANGED <<enable_hnsw_indexes, unique_ID, adding, has_DSN, chunks, txn, open_conns, open_cursors, pc, pages, last_add, clean>>
\* line 264: raise NotImplementedError
Delete(node_id) ==
  /\ pc = "idle"
  /\ call' = [NoCall EXCEPT !.op = "delete", !.outcome = "NotImplementedError",
                            !.pre_dict = node_dict, !.pre_chunks = chunks,
                            !.arg_ids = <<node_id>>]
  /\ UNCHANGED <<node_dict, enable_hnsw_indexes, unique_ID, adding, has_DSN, chunks, txn, open_conns, open_cursors, pc, pages, last_add, clean>>

\* -------------------------------------------------- OracleVectorStore.persist
\* persist reads self.DSN (line 307).  Neither __init__ nor the class body
\* defines it: the attribute exists only once the caller has assigned it on
\* the instance.
SetDSN ==
  /\ pc = "idle"
  /\ ~has_DSN
  /\ has_DSN' = TRUE
  /\ UNCHANGED <<node_dict, enable_hnsw_indexes, unique_ID, adding, chunks, txn, open_conns, open_cursors, pc, pages, call, last_add, clean>>

\* The call returns or raises: back to "idle" with the outcome recorded.
Ends(outcome) ==
  /\ pc' = "idle"
  /\ pages' = NoPages
  /\ call' = [call EXCEPT !.outcome = outcome, !.tot_errors = pages.tot_errors,
                          \* history: the nodes line 311 drops from the buffer
                          !.removed = IF outcome = "ok" THEN node_dict ELSE <<>>]

StagedAlways(d) == TRUE
\* line 293: if self.node_dict:
Staged(d) == d # <<>>

\* lines 293-301: the emptiness test, the four empty lists and the iterator
\* over self.node_dict.items(), which remembers the size of the dict.
PersistBegin ==
  /\ pc = "idle"
  /\ LET started == [NoCall EXCEPT !.op = "persist", !.outcome = "running",
                                   !.pre_dict = node_dict, !.pre_chunks = chunks,
                                   !.after_clean = clean]
     IN IF ~Staged(node_dict)
        THEN /\ call' = [started EXCEPT !.outcome = "noop"]
             /\ UNCHANGED <<pc, pages, clean>>
        ELSE /\ call' = started
             /\ clean' = FALSE
             /\ pc' = "collect"
             /\ pages' = [NoPages EXCEPT !.i = 1, !.size = Len(node_dict)]
  /\ UNCHANGED <<node_dict, enable_hnsw_indexes, unique_ID, adding, has_DSN, chunks, txn, open_conns, open_cursors, last_add>>

\* lines 301-305: one step of the iterator.  It raises RuntimeError when the
\* dict has changed size since the loop began; past the last entry the loop
\* is over; otherwise the entry at its position is read as it is now, and a
\* node without metadata["page#"] raises KeyError at line 305.
PersistCollect ==
  /\ pc = "collect"
  /\ IF Len(node_dict) # pages.size
     THEN Ends("RuntimeError")
     ELSE IF pages.i > pages.size
     THEN pc' = "connect" /\ pages' = [pages EXCEPT !.i = 1] /\ UNCHANGED call
     ELSE LET node == node_dict[pages.i]
          IN IF ~node.has_page
             THEN Ends("KeyError")
             ELSE /\ pages' = [pages EXCEPT
                                 !.pages_id = Append(@, node.id_),
                                 !.pages_text = Append(@, node.text),
                                 !.embeddings = Append(@, [some |-> node.has_embedding, v |-> node.embedding]),
                                 !.pages_num = Append(@, node.page),
                                 !.i = @ + 1]
                  /\ UNCHANGED <<pc, call>>
  /\ UNCHANGED <<node_dict, enable_hnsw_indexes, unique_ID, adding, has_DSN, chunks, txn, open_conns, open_cursors, last_add, clean>>

\* oracledb.connect raising, were persist to catch it and go on
ConnectRefusedCaught ==
  /\ pc' = "clear"
  /\ call' = [call EXCEPT !.refused = TRUE]
  /\ UNCHANGED <<pages, open_conns, open_cursors>>
\* line 307: oracledb.connect raises; nothing in persist catches it
ConnectRefused ==
  /\ pc' = "idle"
  /\ pages' = NoPages
  /\ call' = [call EXCEPT !.outcome = "ConnectError", !.refused = TRUE]
  /\ UNCHANGED <<open_conns, open_cursors>>

\* line 307: oracledb.connect(..., dsn=self.DSN, ...).  The argument is
\* evaluated first (AttributeError without the attribute); the connection
\* itself may be refused.
PersistConnect ==
  /\ pc = "connect"
  /\ IF ~has_DSN
     THEN Ends("AttributeError") /\ UNCHANGED <<open_conns, open_cursors>>
     ELSE \E connected \in BOOLEAN :
            IF connected
            THEN /\ pc' = "cursor"
                 /\ open_conns' = open_conns + 1
                 /\ call' = [call EXCEPT !.conns = @ + 1]
                 /\ UNCHANGED <<pages, open_cursors>>
            ELSE ConnectRefused
  /\ UNCHANGED <<node_dict, enable_hnsw_indexes, unique_ID, adding, has_DSN, chunks, txn, last_add, clean>>

\* an exception that leaves the cursor and the connection open
AbortsLeaving(outcome) ==
  /\ Ends(outcome)
  /\ txn' = {}
  /\ UNCHANGED <<open_conns, open_cursors>>
\* An exception raised under the with block of line 307: the call is on its
\* way out, with what it had opened still open and the transaction pending.
\* call.fault holds the exception.
Aborts(outcome) ==
  /\ call' = [call EXCEPT !.fault = outcome]
  /\ pc' = IF pc = "rows" THEN "abort_cursor" ELSE "abort"
  /\ UNCHANGED <<pages, txn, open_conns, open_cursors>>

\* lines 198-200: the cursor; a failure is the critical error of lines 216-218.
PersistCursor ==
  /\ pc = "cursor"
  /\ \E opened \in BOOLEAN :
       IF opened
       THEN /\ pc' = "rows"
            /\ open_cursors' = open_cursors + 1
            /\ UNCHANGED <<pages, call, txn, open_conns>>
       ELSE Aborts("CriticalError")
  /\ UNCHANGED <<node_dict, enable_hnsw_indexes, unique_ID, adding, has_DSN, chunks, last_add, clean>>

\* The INSERT of an id the table already holds, in the committed rows or in
\* the open transaction: refused when ID is a unique key.  The table is
\* created outside this source; with no key on ID the row goes in.
Duplicate(id) == unique_ID /\ \E r \in chunks \cup txn : r.id = id

\* lines 207-210: the row bound to the INSERT for the i-th collected node,
\* with book_id None.
BoundRow(i) ==
  [id |-> pages.pages_id[i], chunk |-> pages.pages_text[i], vec |-> pages.embeddings[i].v,
   page_num |-> pages.pages_num[i], book_id |-> None]

\* the INSERT of lines 207-213 on a connection that commits every statement
InsertRowAutocommit(ok) ==
  LET i == pages.i
      row == BoundRow(i)
      last == i = Len(pages.pages_id)
  IN /\ txn' = txn
     /\ chunks' = IF ok THEN chunks \cup {row} ELSE chunks
     /\ call' = [call EXCEPT !.attempts = Append(@, [id |-> row.id, ok |-> ok])]
     /\ pages' = [pages EXCEPT !.i = i + 1, !.tot_errors = IF ok THEN @ ELSE @ + 1]
     /\ pc' = IF last THEN "commit" ELSE "rows"
     /\ open_cursors' = IF last THEN open_cursors - 1 ELSE open_cursors
     /\ UNCHANGED open_conns

\* the loop of lines 202-213 given up at the first INSERT that fails
InsertRowStopsOnError(ok) ==
  LET i == pages.i
      row == BoundRow(i)
      last == i = Len(pages.pages_id) \/ ~ok
  IN /\ txn' = IF ok THEN txn \cup {row} ELSE txn
     /\ chunks' = chunks
     /\ call' = [call EXCEPT !.attempts = Append(@, [id |-> row.id, ok |-> ok])]
     /\ pages' = [pages EXCEPT !.i = i + 1, !.tot_errors = IF ok THEN @ ELSE @ + 1]
     /\ pc' = IF last THEN "commit" ELSE "rows"
     /\ open_cursors' = IF last THEN open_cursors - 1 ELSE open_cursors
     /\ UNCHANGED open_conns

\* lines 207-213: one INSERT with book_id None; a failure is logged and
\* counted, and the loop goes on.
InsertRow(ok) ==
  LET i == pages.i
      row == BoundRow(i)
      last == i = Len(pages.pages_id)
  IN /\ txn' = IF ok THEN txn \cup {row} ELSE txn
     /\ chunks' = chunks
     /\ call' = [call EXCEPT !.attempts = Append(@, [id |-> row.id, ok |-> ok])]
     /\ pages' = [pages EXCEPT !.i = i + 1, !.tot_errors = IF ok THEN @ ELSE @ + 1]
     /\ pc' = IF last THEN "commit" ELSE "rows"
     /\ open_cursors' = IF last THEN open_cursors - 1 ELSE open_cursors
     /\ UNCHANGED open_conns

\* lines 202-213: one turn of the loop.  array.array(array_type, vector) at
\* line 205 is outside the inner try: an embedding of None raises TypeError,
\* which lines 216-218 log and re-raise.
PersistRow ==
  /\ pc = "rows"
  /\ IF ~pages.embeddings[pages.i].some
     THEN Aborts("CriticalError") /\ UNCHANGED chunks
     ELSE \E accepted \in BOOLEAN :
            InsertRow(accepted /\ ~Duplicate(pages.pages_id[pages.i]))
  /\ UNCHANGED <<node_dict, enable_hnsw_indexes, unique_ID, adding, has_DSN, last_add, clean>>

\* line 311 moved ahead of the commit: the buffer is emptied whether or not
\* the commit goes through
PersistCommitClearsFirst ==
  /\ pc = "commit"
  /\ node_dict' = <<>>
  /\ last_add' = <<>>
  /\ \E committed \in BOOLEAN :
       IF committed
       THEN /\ chunks' = chunks \cup txn
            /\ txn' = {}
            /\ call' = [call EXCEPT !.commits = @ + 1, !.tot_errors = pages.tot_errors]
            /\ pc' = "close"
            /\ UNCHANGED <<pages, open_conns, open_cursors>>
       ELSE Aborts("CommitError") /\ UNCHANGED chunks
  /\ UNCHANGED <<enable_hnsw_indexes, unique_ID, adding, has_DSN, clean>>
\* line 309: connection.commit().  The connection is still open.
PersistCommit ==
  /\ pc = "commit"
  /\ \E committed \in BOOLEAN :
       IF committed
       THEN /\ chunks' = chunks \cup txn
            /\ txn' = {}
            /\ call' = [call EXCEPT !.commits = @ + 1, !.tot_errors = pages.tot_errors]
            /\ pc' = "close"
            /\ UNCHANGED <<pages, open_conns, open_cursors>>
       ELSE Aborts("CommitError") /\ UNCHANGED chunks
  /\ UNCHANGED <<node_dict, enable_hnsw_indexes, unique_ID, adding, has_DSN, last_add, clean>>

\* The exception leaves the with block of line 198: the cursor is closed,
\* and lines 216-218 log and re-raise.  The connection is still open and the
\* rows inserted so far are still in its transaction.
PersistCursorExit ==
  /\ pc = "abort_cursor"
  /\ pc' = "abort"
  /\ open_cursors' = open_cursors - 1
  /\ UNCHANGED <<node_dict, enable_hnsw_indexes, unique_ID, adding, has_DSN, chunks, txn, open_conns, pages, call, last_add, clean>>

\* The exception leaves the with block of line 307: the connection is
\* closed, which rolls the transaction back, and the exception reaches the
\* caller of persist.
PersistAbort ==
  /\ pc = "abort"
  /\ Ends(call.fault)
  /\ txn' = {}
  /\ open_conns' = open_conns - 1
  /\ UNCHANGED <<node_dict, enable_hnsw_indexes, unique_ID, adding, has_DSN, chunks, open_cursors, last_add, clean>>

\* The with block of line 307 is left: the connection is closed.
PersistClose ==
  /\ pc = "close"
  /\ pc' = "clear"
  /\ open_conns' = open_conns - 1
  /\ UNCHANGED <<node_dict, enable_hnsw_indexes, unique_ID, adding, has_DSN, chunks, txn, open_cursors, pages, call, last_add, clean>>

\* line 311 clearing the buffer only when no row failed
PersistClearUnlessErrors ==
  /\ pc = "clear"
  /\ node_dict' = IF pages.tot_errors = 0 THEN <<>> ELSE node_dict
  /\ last_add' = IF pages.tot_errors = 0 THEN <<>> ELSE last_add
  /\ clean' = (pages.tot_errors = 0)
  /\ Ends("ok")
  /\ UNCHANGED <<enable_hnsw_indexes, unique_ID, adding, has_DSN, chunks, txn, open_conns, open_cursors>>

\* line 311: self.node_dict = {}
PersistClear ==
  /\ pc = "clear"
  /\ node_dict' = <<>>
  /\ last_add' = <<>>
  /\ clean' = (pages.tot_errors = 0)
  /\ Ends("ok")
  /\ UNCHANGED <<enable_hnsw_indexes, unique_ID, adding, has_DSN, chunks, txn, open_conns, open_cursors>>

\* ------------------------------------------------------------ specification
\* The life cycle of one instance, over a store that already holds one chunk
\* of a book; its id is also the id of a node, whose insert violates the key
\* when ID has one.
Init == Constructed /\ chunks = {PreRow(NumIds, <<1, 0>>, "B1")}

\* Queries in the life cycle: floor 0, the smallest and the largest top_k.
QueryLife ==
  \E top_k \in {1, MaxTopK} :
    Query(<<1, 0>>, top_k, 0)
AddNext == \E nodes \in NodeLists : Add(nodes)
DeleteNext == \E node_id \in NodeIds : Delete(node_id)

Next ==
  \/ AddNext
  \/ DeleteNext
  \/ QueryLife
  \/ QueryCursor
  \/ QueryExecute
  \/ QueryFetch
  \/ QueryRow
  \/ QueryCursorExit
  \/ QueryReturn
  \/ SetDSN
  \/ PersistBegin
  \/ PersistCollect
  \/ PersistConnect
  \/ PersistCursor
  \/ PersistRow
  \/ PersistCommit
  \/ PersistCursorExit
  \/ PersistAbort
  \/ PersistClose
  \/ PersistClear

Spec == Init /\ [][Next]_vars

\* ------------------------------------------- calls that are not serialized
\* add called from another thread, whatever persist is doing: lines 249-250,
\* the empty ids_list and the loop about to start.
AddStart(nodes) ==
  /\ ~adding.active
  /\ adding' = [active |-> TRUE, left |-> nodes, ids_list |-> <<>>]
  /\ UNCHANGED <<node_dict, enable_hnsw_indexes, unique_ID, has_DSN, chunks, txn, open_conns, open_cursors, pc, pages, call, last_add, clean>>

\* The lists the other thread passes: one node, well formed or without
\* embedding, or a new node followed by a new text for node 1.
ConcLists ==
  {<<Node(1, "t1", TRUE, TRUE)>>, <<Node(2, "t1", TRUE, TRUE)>>, <<Node(2, "t1", FALSE, TRUE)>>,
   <<Node(2, "t1", TRUE, TRUE), Node(1, "t2", TRUE, TRUE)>>}
AddStartNext == \E nodes \in ConcLists : AddStart(nodes)

\* lines 251-253: one turn of the loop, on the dict self.node_dict is bound
\* to now.  The call record stays the persist's; it notes that an add wrote
\* to the buffer while the persist was under way.
AddStep ==
  /\ adding.active
  /\ adding.left # <<>>
  /\ node_dict' = DictSet(node_dict, Head(adding.left))
  /\ adding' = [adding EXCEPT !.left = Tail(@), !.ids_list = IdsList(<<Head(adding.left)>>, @)]
  /\ last_add' = Latest(last_add, <<Head(adding.left)>>)
  /\ clean' = FALSE
  /\ call' = IF pc # "idle" THEN [call EXCEPT !.interleaved = TRUE] ELSE call
  /\ UNCHANGED <<enable_hnsw_indexes, unique_ID, has_DSN, chunks, txn, open_conns, open_cursors, pc, pages>>

\* line 255: return ids_list
AddReturn ==
  /\ adding.active
  /\ adding.left = <<>>
  /\ adding' = NoAdding
  /\ UNCHANGED <<node_dict, enable_hnsw_indexes, unique_ID, has_DSN, chunks, txn, open_conns, open_cursors, pc, pages, call, last_add, clean>>

\* add and persist only: the two calls whose interleaving is in question
NextConc ==
  \/ AddStartNext
  \/ AddStep
  \/ AddReturn
  \/ SetDSN
  \/ PersistBegin
  \/ PersistCollect
  \/ PersistConnect
  \/ PersistCursor
  \/ PersistRow
  \/ PersistCommit
  \/ PersistCursorExit
  \/ PersistAbort
  \/ PersistClose
  \/ PersistClear

\* enable_hnsw_indexes is read by query alone, which is not among these calls.
InitConc == Init /\ ~enable_hnsw_indexes
SpecConc == InitConc /\ [][NextConc]_vars

\* ================================================================== claims
QueryDone == call.op = "query" /\ call.outcome = "ok"
Ids(rows) == [k \in 1..Len(rows) |-> rows[k].id]
\* The fetched rows that meet the floor, in the order fetched.
MeetFloor(rows, floor) == SelectSeq(rows, LAMBDA r : Unit - r.d >= floor)
\* The distance of the fetched row with this id.
DistOf(id) == (CHOOSE r \in Range(call.rows) : r.id = id).d
Joined == Select(chunks, call.embed_query)
\* A joined row is among the top_k closest when fewer than top_k rows are closer.
AmongClosest(id) ==
  \A r \in Joined : r.id = id => Cardinality({j \in Joined : j.d < r.d}) < call.top_k
\* The joined rows that meet the floor and were not fetched.
LeftOut == {r \in Joined : r \notin Range(call.rows) /\ Unit - r.d >= call.similarity}

\* C1: a query that completes without error returns exactly the fetched rows
\* (at most top_k) whose 1 - distance is >= the floor: each result meets the
\* floor and no fetched row that meets it is left out.
C1_FloorFilter ==
  QueryDone =>
    LET kept == MeetFloor(call.rows, call.similarity)
        res == call.q_result
    IN /\ Len(call.rows) <= call.top_k
       /\ res.ids = Ids(kept)
       /\ Len(res.nodes) = Len(kept)
       /\ \A k \in 1..Len(kept) :
            /\ res.nodes[k].id_ = kept[k].id
            /\ Unit - kept[k].d >= call.similarity
C1_Witness ==
  /\ QueryDone
  /\ Len(call.q_result.ids) >= 1
  /\ \E k \in 1..Len(call.rows) : Unit - call.rows[k].d = call.similarity
  /\ \E k \in 1..Len(call.rows) : Unit - call.rows[k].d < call.similarity

\* C2 as claimed: at most top_k rows are fetched, so at most top_k results; and
\* every result is one of the top_k closest rows of the store.
C2_Original ==
  QueryDone =>
    /\ Len(call.rows) <= call.top_k
    /\ Len(call.q_result.nodes) <= call.top_k
    /\ \A k \in 1..Len(call.q_result.ids) : AmongClosest(call.q_result.ids[k])

\* C2 as amended: at most top_k rows are fetched and at most top_k results
\* returned, all taken from the fetched rows.  Under exact search the results
\* are among the top_k closest rows, and whenever the limit leaves out a row
\* that meets the floor the output holds exactly top_k results: it holds fewer
\* results than the floor admits, never fewer than top_k.
C2_TopKThenFloor ==
  QueryDone =>
    /\ Len(call.rows) <= call.top_k
    /\ Len(call.q_result.nodes) <= call.top_k
    /\ Range(call.q_result.ids) \subseteq Range(Ids(call.rows))
    /\ ~enable_hnsw_indexes =>
         /\ \A k \in 1..Len(call.q_result.ids) : AmongClosest(call.q_result.ids[k])
         /\ LeftOut # {} => Len(call.q_result.nodes) = call.top_k
C2_Witness ==
  /\ QueryDone
  /\ ~enable_hnsw_indexes
  /\ LeftOut # {}
  /\ Len(call.q_result.nodes) = call.top_k
  /\ Cardinality(Joined) > call.top_k

\* C3: the results are sorted by ascending distance (descending similarity):
\* of two consecutive results the earlier is at most as far as the later.
C3_AscendingDistance ==
  QueryDone =>
    \A k \in 1..(Len(call.q_result.ids) - 1) :
      /\ DistOf(call.q_result.ids[k]) <= DistOf(call.q_result.ids[k + 1])
      /\ call.q_result.nodes[k].score >= call.q_result.nodes[k + 1].score
C3_Witness ==
  /\ QueryDone
  /\ Len(call.q_result.ids) >= 2
  /\ DistOf(call.q_result.ids[1]) < DistOf(call.q_result.ids[2])

\* C4: the score of each result, on the node and in the similarities list,
\* is 1 - cosine distance of its row.
C4_ScoreIsSimilarity ==
  QueryDone =>
    \A k \in 1..Len(call.q_result.ids) :
      /\ call.q_result.nodes[k].score = Unit - DistOf(call.q_result.ids[k])
      /\ call.q_result.similarities[k] = Unit - DistOf(call.q_result.ids[k])

\* C5: after any adds, the buffer holds one entry per distinct id added, and
\* the entry of an id is the node of the last add of that id.
C5_StagingIdempotence ==
  /\ {node_dict[k].id_ : k \in 1..Len(node_dict)} = DOMAIN last_add
  /\ Len(node_dict) = Cardinality(DOMAIN last_add)
  /\ \A k \in 1..Len(node_dict) : node_dict[k] = last_add[node_dict[k].id_]
C5_Witness ==
  /\ call.op = "add"
  /\ call.arg_ids = <<1, 1>>
  /\ Len(node_dict) = 2
  /\ \E k \in 1..2 : node_dict[k].id_ = 1 /\ node_dict[k].text = "t2"

PersistEnded == call.op = "persist" /\ pc = "idle"
StagedIds(d) == [k \in 1..Len(d) |-> d[k].id_]
AttemptIds == [k \in 1..Len(call.attempts) |-> call.attempts[k].id]
FailedAttempts == {k \in 1..Len(call.attempts) : ~call.attempts[k].ok}

\* C6: when persist is run on a batch in which a row insert fails (here: the
\* nodes are well formed and a staged id is already a key of CHUNKS), an
\* insert is attempted for every staged node, the rows whose insert succeeded
\* are committed, and the error count is the number of failed inserts.
C6_PartialPersist ==
  (/\ PersistEnded
   /\ \A k \in DOMAIN call.pre_dict : call.pre_dict[k].has_page /\ call.pre_dict[k].has_embedding
   /\ \E k \in DOMAIN call.pre_dict, r \in call.pre_chunks : call.pre_dict[k].id_ = r.id) =>
    /\ AttemptIds = StagedIds(call.pre_dict)
    /\ \A k \in DOMAIN call.attempts :
         call.attempts[k].ok =>
           \E r \in chunks : r.id = call.attempts[k].id /\ r.chunk = call.pre_dict[k].text
    /\ call.tot_errors = Cardinality(FailedAttempts)

\* C7 as claimed: after any persist call on a non-empty buffer the buffer is empty.
C7_Original ==
  (PersistEnded /\ call.pre_dict # <<>>) => node_dict = <<>>

\* C7 as amended: a persist call on a non-empty buffer that returns leaves
\* the buffer empty, even if every row insert failed; one that raises leaves
\* the buffer as it was.
C7_ClearedOnReturn ==
  (PersistEnded /\ call.pre_dict # <<>>) =>
    /\ call.outcome = "ok" => node_dict = <<>>
    /\ call.outcome # "ok" => node_dict = call.pre_dict
C7_Witness ==
  /\ PersistEnded
  /\ call.outcome = "ok"
  /\ Len(call.pre_dict) >= 2
  /\ FailedAttempts = DOMAIN call.attempts
  /\ node_dict = <<>>

\* C8: persist on an empty buffer opens no connection, writes nothing and
\* commits nothing; and right after a persist without row failures, with no
\* add in between, the buffer is empty, so the next persist is that no-op.
C8_EmptyPersistNoOp ==
  /\ clean => node_dict = <<>>
  /\ (call.op = "persist" /\ (call.pre_dict = <<>> \/ call.after_clean)) =>
       /\ call.outcome = "noop"
       /\ pc = "idle"
       /\ call.conns = 0
       /\ call.attempts = <<>>
       /\ call.commits = 0
       /\ chunks = call.pre_chunks
       /\ txn = {}
       /\ open_conns = 0
C8_Witness ==
  /\ call.op = "persist"
  /\ call.after_clean
  /\ call.outcome = "noop"
  /\ \E r \in chunks : r.book_id = None

C10_ConnectFailurePropagates ==
  (call.op = "persist" /\ call.refused) =>
    /\ call.outcome = "ConnectError"
    /\ pc = "idle"
    /\ call.conns = 0
    /\ call.attempts = <<>>
    /\ call.commits = 0
    /\ chunks = call.pre_chunks
    /\ txn = {}
    /\ open_conns = 0
C10_Witness ==
  /\ call.op = "persist"
  /\ call.refused
  /\ call.pre_dict # <<>>
  /\ call.outcome = "ConnectError"

\* ---- error handling of query (lines 100-168, 266-287)

QueryFailed == call.op = "query" /\ call.fault # "none"
\* What the caller of query holds: None, or the result object.
ReturnValue == [outcome |-> call.outcome, q_result |-> call.q_result]

\* C11: a connection, execution or read error during query ends the call
\* with None: nothing is raised, none of the rows processed before the error
\* is returned, and the buffer and the store are as before.
C11_ErrorReturnsNone ==
  QueryFailed =>
    /\ call.outcome \in {"running", "None"}
    /\ pc = "idle" <=> call.outcome = "None"
    /\ call.outcome = "None" => call.q_result = EmptyResult
    /\ node_dict = call.pre_dict
    /\ chunks = call.pre_chunks
C11_Witness ==
  /\ QueryFailed
  /\ pc = "idle"
  /\ call.fault = "read"
  /\ call.reads >= 1
  /\ call.outcome = "None"

\* C12 as stated: a failed query returns what a query with no row above
\* the floor returns, the result object with three empty lists.
C12_Original == (QueryFailed /\ pc = "idle") => ReturnValue = Returns(EmptyResult)
\* C12: a query returns None exactly when it failed; a query that went
\* through with no row above the floor returns the result object with three
\* empty lists, which is not None.
C12_FailureIsNone ==
  (call.op = "query" /\ pc = "idle") =>
    /\ (call.outcome = "None") <=> QueryFailed
    /\ (~QueryFailed /\ MeetFloor(call.rows, call.similarity) = <<>>) =>
         /\ ReturnValue = Returns(EmptyResult)
         /\ ReturnValue # Except(EmptyResult)
C12_Witness ==
  /\ QueryDone
  /\ call.rows # <<>>
  /\ MeetFloor(call.rows, call.similarity) = <<>>
  /\ call.q_result = EmptyResult

\* ---- delete (lines 257-264)

\* C13: every delete, of a staged id or of any other id, ends with
\* NotImplementedError and nothing else, and leaves the staging buffer and
\* the store as they were; it opens no connection.
C13_DeleteUnsupported ==
  call.op = "delete" =>
    /\ call.outcome = "NotImplementedError"
    /\ node_dict = call.pre_dict
    /\ chunks = call.pre_chunks
    /\ txn = {}
    /\ call.conns = 0
    /\ open_conns = 0
    /\ pc = "idle"
C13_Witness ==
  /\ call.op = "delete"
  /\ \E k \in 1..Len(node_dict) : node_dict[k].id_ = call.arg_ids[1]
  /\ call.outcome = "NotImplementedError"

\* ---- connections and cursors (lines 100-168, 196-218, 307-309)

\* C14: between calls no connection and no cursor is open, whichever way
\* the last persist or query ended; a call opens at most one connection, a
\* persist that reached its inserts and a query that reached its SELECT did
\* so on a connection the call itself opened, and at most one connection and
\* one cursor are open at any time: persist holds its cursor during the
\* insert loop only (and, when the loop raises, until the exception has left
\* the cursor's with block) and its connection until after the commit or
\* until the exception has left the connection's with block; a running query
\* holds one connection, and one cursor from line 107 until the loop is
\* over or an exception has left the cursor's with block.
C14_ConnectionsClosed ==
  /\ pc = "idle" => (open_conns = 0 /\ open_cursors = 0 /\ txn = {})
  /\ open_conns \in {0, 1}
  /\ open_cursors \in {0, 1}
  /\ open_cursors <= open_conns
  /\ call.conns \in {0, 1}
  /\ (call.op = "persist" /\ call.attempts # <<>>) => call.conns = 1
  /\ (call.op = "persist" /\ pc \in {"cursor", "rows", "commit", "close", "abort_cursor", "abort"}) =>
       (open_conns = 1 /\ call.conns = 1)
  /\ call.op = "persist" => ((pc \in {"rows", "abort_cursor"}) <=> (open_cursors = 1))
  /\ (call.op = "query" /\ call.fault # "connect") => call.conns = 1
  /\ (call.op = "query" /\ pc # "idle") => open_conns = 1
  /\ call.op = "query" => ((pc \in {"q_execute", "q_fetch", "q_rows", "q_leave"}) <=> (open_cursors = 1))
C14_Witness ==
  /\ PersistEnded
  /\ call.outcome = "CriticalError"
  /\ call.attempts # <<>>
  /\ call.conns = 1
  /\ open_conns = 0
  /\ open_cursors = 0

\* ---- the floor (lines 145-162)

\* What the loop of lines 145-162 makes of these rows under this floor.
Under(rows, floor) == FilterRows(rows, floor, EmptyResult)

\* The row sequences the SELECT may return when it is run again on the same
\* embedding, the same store and the same top_k.
Refetches == FetchFirst(Select(chunks, call.embed_query), enable_hnsw_indexes, call.top_k)

\* C15 as claimed: for a fixed embedding, store and top_k, a query under a
\* higher floor returns no more results than the query under the lower
\* floor, and its results are a subset of the results of that query.
C15_Original ==
  QueryDone =>
    \A floor \in Floors :
      floor >= call.similarity =>
        \A other \in Refetches :
          /\ Len(Under(other, floor).ids) <= Len(call.q_result.ids)
          /\ Range(Under(other, floor).ids) \subseteq Range(call.q_result.ids)

\* C15 as amended: for the rows one execution of the SELECT fetched, every
\* higher floor gives a result that is contained in the result returned, in
\* the same order and no longer.  Across two executions on the same
\* embedding, store and top_k, only the number of results is monotone, and
\* only under exact search, whichever top_k closest rows are fetched.
C15_FloorMonotone ==
  QueryDone =>
    \A floor \in Floors :
      floor >= call.similarity =>
        /\ Len(Under(call.rows, floor).ids) <= Len(call.q_result.ids)
        /\ Range(Under(call.rows, floor).nodes) \subseteq Range(call.q_result.nodes)
        /\ Under(call.rows, floor).ids =
             SelectSeq(call.q_result.ids, LAMBDA id : id \in Range(Under(call.rows, floor).ids))
        /\ ~enable_hnsw_indexes =>
             \A other \in FetchFirst(Select(chunks, call.embed_query), FALSE, call.top_k) :
               Len(Under(other, floor).ids) <= Len(call.q_result.ids)
C15_Witness ==
  /\ QueryDone
  /\ \E floor \in Floors :
       /\ floor > call.similarity
       /\ Under(call.rows, floor).ids # <<>>
       /\ Len(Under(call.rows, floor).ids) < Len(call.q_result.ids)

\* ---- add (lines 240-255)

AddDone == call.op = "add"

\* C16: an add opens no connection, sends no statement and commits
\* nothing: the rows of CHUNKS and the open transaction are as before the
\* call.  The store changes in no add, delete or query, and in no persist
\* that did not commit.
C16_AddStagesOnly ==
  /\ AddDone =>
       /\ call.conns = 0
       /\ call.attempts = <<>>
       /\ call.commits = 0
       /\ open_conns = 0
       /\ open_cursors = 0
       /\ txn = {}
       /\ chunks = call.pre_chunks
  /\ call.op \in {"add", "delete", "query"} => chunks = call.pre_chunks
  /\ (call.op = "persist" /\ call.commits = 0) => chunks = call.pre_chunks
C16_Witness ==
  /\ AddDone
  /\ \E k \in 1..Len(node_dict) :
       /\ node_dict[k].has_embedding
       /\ node_dict[k].has_page
       /\ \A r \in chunks : r.id # node_dict[k].id_
  /\ chunks = call.pre_chunks

\* C17: add returns the ids of the nodes of this call, one per node and in
\* the order given, an id given twice appearing twice; ids staged by earlier
\* calls are not in it.
C17_AddReturnsCallIds ==
  AddDone =>
    /\ call.ids_list = call.arg_ids
    /\ Len(call.ids_list) = Len(call.arg_ids)
C17_Witness ==
  /\ AddDone
  /\ Len(call.arg_ids) = 2
  /\ call.arg_ids[1] = call.arg_ids[2]
  /\ call.ids_list = call.arg_ids
  /\ \E k \in 1..Len(node_dict) : node_dict[k].id_ \notin Range(call.ids_list)

\* ---- book_id (lines 307-308, 120-130)

\* The rows of CHUNKS and of the open transaction that persist wrote: the
\* preloaded rows carry the chunk text "p", the staged nodes never do.
Persisted == {r \in chunks \cup txn : r.chunk \in Texts}
BookIds == {b.id : b \in BOOKS}

\* C18: every row persist writes has book_id None; every chunk a query
\* fetches or returns is a committed row whose book_id is the id of a book;
\* so no row written by persist is among the rows fetched or the nodes
\* returned.
C18_PersistedNeverReturned ==
  /\ \A r \in Persisted : r.book_id = None
  /\ call.op = "query" =>
       /\ \A k \in 1..Len(call.rows) :
            \E r \in chunks \ Persisted :
              r.id = call.rows[k].id /\ r.chunk = call.rows[k].chunk /\ r.book_id \in BookIds
       /\ \A k \in 1..Len(call.q_result.nodes) :
            \E r \in chunks \ Persisted :
              /\ r.id = call.q_result.nodes[k].id_
              /\ r.chunk = call.q_result.nodes[k].text
              /\ r.book_id \in BookIds
       /\ \A r \in Persisted : \A k \in 1..Len(call.q_result.nodes) :
            ~(r.id = call.q_result.nodes[k].id_ /\ r.chunk = call.q_result.nodes[k].text)
C18_Witness ==
  /\ QueryDone
  /\ call.similarity = 0
  /\ Len(call.rows) < call.top_k
  /\ \E r \in chunks :
       /\ r \in Persisted
       /\ VECTOR_DISTANCE(r.vec, call.embed_query) = 0
       /\ r.id \notin Range(call.q_result.ids)

\* ---- persist that raises (lines 293-311)

Raised == {"KeyError", "AttributeError", "ConnectError", "CriticalError", "CommitError"}
PersistRaised == PersistEnded /\ call.outcome \in Raised

\* C19: a persist that raised, at the page metadata, at the connection, in
\* the insert loop or at the commit, leaves the buffer holding the nodes it
\* held before the call, in the same order, and not empty; the next persist
\* collects the same batch.
C19_RaiseKeepsBuffer ==
  PersistRaised =>
    /\ node_dict = call.pre_dict
    /\ Staged(node_dict)
    /\ StagedIds(node_dict) = StagedIds(call.pre_dict)
    /\ ENABLED PersistBegin
C19_Witness ==
  /\ PersistRaised
  /\ call.outcome = "CommitError"
  /\ call.attempts # <<>>
  /\ node_dict = call.pre_dict
  /\ node_dict # <<>>

\* ---- add and persist on one instance (lines 293-311, 250-255)

PersistCleared == PersistEnded /\ call.outcome = "ok"

\* C20: every node that line 311 drops without an insert having been
\* attempted for its id, and every dropped node that is not one of those
\* persist had collected, was put in the buffer by an add that ran while the
\* persist was under way; a persist no add ran into drops exactly the nodes
\* it collected, each with an insert attempted, in the same order.
C20_LostOnlyWhenInterleaved ==
  PersistCleared =>
    /\ AttemptIds = StagedIds(call.pre_dict)
    /\ \A k \in 1..Len(call.removed) :
         (call.removed[k].id_ \notin Range(AttemptIds) \/ call.removed[k] \notin Range(call.pre_dict))
           => call.interleaved
    /\ ~call.interleaved =>
         /\ call.removed = call.pre_dict
         /\ StagedIds(call.removed) = AttemptIds
\* a lost node: dropped from the buffer, no insert attempted for its id
C20_Witness ==
  /\ PersistCleared
  /\ call.interleaved
  /\ \E k \in 1..Len(call.removed) : call.removed[k].id_ \notin Range(AttemptIds)
  /\ node_dict = <<>>
====
